---- MODULE Spec2Model ----
(***************************************************************************)
(* Model of the web-scraper core: the retrying HTTP fetcher                *)
(* (src/fetcher.py) and the pydantic validation pipeline                   *)
(* (src/validators.py).                                                    *)
(*                                                                         *)
(* Conventions                                                             *)
(*   - a Python Optional value is a sequence of length 0 (None) or 1;      *)
(*   - a Python str is a sequence of one-character strings;                *)
(*   - durations are integers in milliseconds (0.3 s = 300), which keeps   *)
(*     backoff_factor * 2 ** attempt exact, as doubling is in binary       *)
(*     floating point.                                                     *)
(***************************************************************************)
EXTENDS Integers, Sequences, FiniteSets, TLC

\* ------------------------------------------------------------------------
\* Bounds of the model
\* ------------------------------------------------------------------------
MaxRetries == 4

\* longest list handed to validate_batch
MaxBatch == 3

\* most records counted between two resets
MaxPassed == 3

\* most records counted between two resets when the records are drawn from
\* the wide set of titles and currencies
MaxWidePassed == 2

\* threads sharing one DataValidator
NThreads == 2

\* ------------------------------------------------------------------------
\* Optional values
\* ------------------------------------------------------------------------
None == <<>>

Some(v) == <<v>>

IsNone(o) == o = <<>>

\* ========================================================================
\* Fetcher (src/fetcher.py)
\* ========================================================================

VARIABLES
  fn,              \* function being executed: "fetch_html" | "fetch_html_with_session"
  retries,         \* argument retries of the running call
  backoff_factor,  \* argument backoff_factor of the running call (ms)
  attempt,         \* loop variable of `for attempt in range(retries)`
  fpc,             \* "idle" | "loop" | "done" | "raised"
  trace,           \* network requests and sleeps of the running call, in order
  result,          \* value returned by the call (Optional[str])
  branch           \* code branch that executed the last return / continue

fvars == <<fn, retries, backoff_factor, attempt, fpc, trace, result, branch>>

\* state of one DataValidator (src/validators.py) and of its last call
VARIABLES
  model_class,        \* DataValidator.model_class
  validation_errors,  \* DataValidator.validation_errors
  valid_count,        \* DataValidator.valid_count
  invalid_count,      \* DataValidator.invalid_count
  passed,             \* records handed to validate since construction / reset_stats
  before,             \* counts, schema and lastOp as the last operation found them
  lastOp,             \* operation executed last
  arg,                \* argument of the last operation
  ret,                \* value returned by the last operation
  log,                \* log records written by the last operation
  escaped             \* TRUE when the last operation ended by raising

vvars == <<model_class, validation_errors, valid_count, invalid_count,
           passed, before, lastOp, arg, ret, log, escaped>>

\* threads that share the DataValidator, each inside one validate call
VARIABLES
  threads             \* per thread: position in validate, its record, its locals

tvars == <<threads>>

vars == <<fvars, vvars, tvars>>

\* --- the environment: what one requests.get can produce -----------------

\* status codes of a final response (after redirects were followed)
OkStatuses == {200, 299, 304}

ErrStatuses == {400, 404, 499, 500, 503, 599}

Bodies == {<<>>, <<"h">>}

\* exception classes requests can raise from get()
TransportExceptions == {"ReadTimeout", "ConnectTimeout", "ConnectionError",
                        "TooManyRedirects"}

NoText == <<>>

Outcomes ==
  {[cls |-> "Response", status |-> s, text |-> t] : s \in OkStatuses, t \in Bodies}
  \cup {[cls |-> "Response", status |-> s, text |-> NoText] : s \in ErrStatuses}
  \cup {[cls |-> c, status |-> 0, text |-> NoText] : c \in TransportExceptions}

\* class hierarchy of the exceptions raised (requests.exceptions, pydantic and
\* builtins), as far as the except clauses see it
Ancestors(cls) ==
  CASE cls = "ReadTimeout"      -> {"ReadTimeout", "Timeout", "RequestException"}
    [] cls = "ConnectTimeout"   -> {"ConnectTimeout", "ConnectionError", "Timeout",
                                    "RequestException"}
    [] cls = "ConnectionError"  -> {"ConnectionError", "RequestException"}
    [] cls = "TooManyRedirects" -> {"TooManyRedirects", "RequestException"}
    [] cls = "HTTPError"        -> {"HTTPError", "RequestException"}
    [] cls = "ValidationError"  -> {"ValidationError", "ValueError", "Exception"}
    [] cls = "TypeError"        -> {"TypeError", "Exception"}
    [] OTHER                    -> {cls}

\* variant: only 5xx raises
raise_for_status_5xx(status) ==
  IF 500 <= status /\ status < 600 THEN "HTTPError" ELSE "none"

\* response.raise_for_status(): HTTPError for 4xx and 5xx, nothing otherwise
raise_for_status(status) ==
  IF 400 <= status /\ status < 600 THEN "HTTPError" ELSE "none"

\* exception leaving the try body for one outcome of the request
Raised(outcome) ==
  IF outcome.cls = "Response" THEN raise_for_status(outcome.status)
  ELSE outcome.cls

\* first except clause (in textual order) that catches exc; "uncaught" if none
RECURSIVE ExceptClause(_, _)
ExceptClause(clauses, exc) ==
  IF clauses = <<>> THEN "uncaught"
  ELSE IF Head(clauses) \in Ancestors(exc) THEN Head(clauses)
  ELSE ExceptClause(Tail(clauses), exc)

RECURSIVE Pow2(_)
Pow2(n) == IF n <= 0 THEN 1 ELSE 2 * Pow2(n - 1)

\* --- arguments the calls are made with ----------------------------------

RetriesArgs == -1 .. MaxRetries

BackoffFactors == {0, 300}

\* fixed factor of fetch_html_with_session: 0.3 s
SessionBackoff == 300

\* --- events of a call ---------------------------------------------------

NoOutcome == [cls |-> "-", status |-> 0, text |-> NoText]

Get(outcome) == [ev |-> "get", out |-> outcome, delay |-> 0]

Sleep(d) == [ev |-> "sleep", out |-> NoOutcome, delay |-> d]

\* --- fetch_html: one iteration of the retry loop ------------------------

\* variant: the catch-all `except RequestException` clause is missing
fetch_html_excepts_nocatchall == <<"Timeout", "HTTPError", "ConnectionError">>

fetch_html_excepts == <<"Timeout", "HTTPError", "ConnectionError", "RequestException">>

sleep_time_Timeout(bf, a) == bf * Pow2(a)

\* variant: linear instead of exponential growth
sleep_time_HTTPError_linear(bf, a) == bf * (a + 1)

sleep_time_HTTPError(bf, a) == bf * Pow2(a)

sleep_time_ConnectionError(bf, a) == bf * Pow2(a)

Return(v, b) == [act |-> "return", value |-> v, slept |-> None, branch |-> b]

Continue(d, b) == [act |-> "continue", value |-> None, slept |-> Some(d), branch |-> b]

Propagate(b) == [act |-> "raise", value |-> None, slept |-> None, branch |-> b]

\* variant: the lower bound of the 4xx test is exclusive
IsClientError_exclusive(status) == 400 < status /\ status < 500

IsClientError(status) == 400 <= status /\ status < 500

\* variant: the timeout branch sleeps after the last attempt too
on_Timeout_alwayssleep(a, r, bf) ==
  IF a < r THEN Continue(sleep_time_Timeout(bf, a), "Timeout")
  ELSE Return(None, "Timeout")

on_Timeout(a, r, bf) ==
  IF a < r - 1 THEN Continue(sleep_time_Timeout(bf, a), "Timeout")
  ELSE Return(None, "Timeout")

\* variant: every HTTP error ends the call, 5xx included
on_HTTPError_noretry(a, r, bf, status) ==
  IF IsClientError(status) THEN Return(None, "HTTPError_4xx")
  ELSE Return(None, "HTTPError_5xx")

on_HTTPError(a, r, bf, status) ==
  IF IsClientError(status) THEN Return(None, "HTTPError_4xx")
  ELSE IF a < r - 1 THEN Continue(sleep_time_HTTPError(bf, a), "HTTPError_5xx")
  ELSE Return(None, "HTTPError_5xx")

on_ConnectionError(a, r, bf) ==
  IF a < r - 1 THEN Continue(sleep_time_ConnectionError(bf, a), "ConnectionError")
  ELSE Return(None, "ConnectionError")

\* variant: the catch-all clause retries instead of returning
on_RequestException_retry == Continue(0, "RequestException")

on_RequestException == Return(None, "RequestException")

\* variant: the success path lacks its return statement
on_success_noreturn(outcome) == Continue(0, "try")

on_success(outcome) == Return(Some(outcome.text), "try")

fetch_html_iteration(a, r, bf, outcome) ==
  LET exc == Raised(outcome)
      clause == ExceptClause(fetch_html_excepts, exc)
  IN  IF exc = "none" THEN on_success(outcome)
      ELSE CASE clause = "Timeout"          -> on_Timeout(a, r, bf)
             [] clause = "HTTPError"        -> on_HTTPError(a, r, bf, outcome.status)
             [] clause = "ConnectionError"  -> on_ConnectionError(a, r, bf)
             [] clause = "RequestException" -> on_RequestException
             [] OTHER                       -> Propagate(exc)

\* --- fetch_html_with_session: one iteration of the retry loop -----------

session_excepts == <<"RequestException">>

\* variant: the session path gives up on a 4xx response as fetch_html does
session_iteration_abort4xx(a, r, outcome) ==
  LET exc == Raised(outcome)
      clause == ExceptClause(session_excepts, exc)
  IN  IF exc = "none" THEN on_success(outcome)
      ELSE IF clause = "RequestException"
           THEN IF a = r - 1 \/ IsClientError(outcome.status)
                THEN Return(None, "RequestException")
                ELSE Continue(SessionBackoff * Pow2(a), "RequestException")
           ELSE Propagate(exc)

session_iteration(a, r, outcome) ==
  LET exc == Raised(outcome)
      clause == ExceptClause(session_excepts, exc)
  IN  IF exc = "none" THEN on_success(outcome)
      ELSE IF clause = "RequestException"
           THEN IF a = r - 1 THEN Return(None, "RequestException")
                ELSE Continue(SessionBackoff * Pow2(a), "RequestException")
           ELSE Propagate(exc)

\* --- actions ------------------------------------------------------------

\* variant: the loop body runs once before retries is looked at
Enter_dowhile(f, r, bf) ==
  /\ fpc \in {"idle", "done", "raised"}
  /\ fn' = f
  /\ retries' = r
  /\ backoff_factor' = bf
  /\ attempt' = 0
  /\ trace' = <<>>
  /\ result' = None
  /\ branch' = "none"
  /\ fpc' = "loop"
  /\ UNCHANGED <<vvars, tvars>>

\* entry of either function; range(retries) is empty for retries <= 0 and
\* the function then falls through to its final `return None`
Enter(f, r, bf) ==
  /\ fpc \in {"idle", "done", "raised"}
  /\ fn' = f
  /\ retries' = r
  /\ backoff_factor' = bf
  /\ attempt' = 0
  /\ trace' = <<>>
  /\ result' = None
  /\ branch' = IF r <= 0 THEN "loop_end" ELSE "none"
  /\ fpc' = IF r <= 0 THEN "done" ELSE "loop"
  /\ UNCHANGED <<vvars, tvars>>

fetch_html(r, bf) == Enter("fetch_html", r, bf)

fetch_html_with_session(r) == Enter("fetch_html_with_session", r, SessionBackoff)

\* effect of one loop iteration on the state of the call
Iterate(outcome, res) ==
  /\ trace' = trace \o <<Get(outcome)>>
                    \o (IF IsNone(res.slept) THEN <<>> ELSE <<Sleep(res.slept[1])>>)
  /\ result' = res.value
  /\ IF res.act = "return"
       THEN /\ fpc' = "done"
            /\ branch' = res.branch
            /\ attempt' = attempt
     ELSE IF res.act = "raise"
       THEN /\ fpc' = "raised"
            /\ branch' = res.branch
            /\ attempt' = attempt
     ELSE /\ attempt' = attempt + 1
          /\ fpc' = IF attempt + 1 < retries THEN "loop" ELSE "done"
          /\ branch' = IF attempt + 1 < retries THEN res.branch ELSE "loop_end"
  /\ UNCHANGED <<fn, retries, backoff_factor>>
  /\ UNCHANGED <<vvars, tvars>>

fetch_html_attempt(outcome) ==
  /\ fpc = "loop"
  /\ fn = "fetch_html"
  /\ Iterate(outcome, fetch_html_iteration(attempt, retries, backoff_factor, outcome))

session_attempt(outcome) ==
  /\ fpc = "loop"
  /\ fn = "fetch_html_with_session"
  /\ Iterate(outcome, session_iteration(attempt, retries, outcome))

FetchInit ==
  /\ fn = "fetch_html"
  /\ retries = 0
  /\ backoff_factor = 0
  /\ attempt = 0
  /\ fpc = "idle"
  /\ trace = <<>>
  /\ result = None
  /\ branch = "none"

FetchNext ==
  \/ \E r \in RetriesArgs, bf \in BackoffFactors : fetch_html(r, bf)
  \/ \E r \in RetriesArgs : fetch_html_with_session(r)
  \/ \E o \in Outcomes : fetch_html_attempt(o)
  \/ \E o \in Outcomes : session_attempt(o)

\* ========================================================================
\* Validation pipeline (src/validators.py)
\* ========================================================================

\* --- strings ------------------------------------------------------------

Whitespace == {" ", "\t", "\n"}

RECURSIVE lstrip(_)
lstrip(s) ==
  IF s # <<>> /\ Head(s) \in Whitespace THEN lstrip(Tail(s)) ELSE s

RECURSIVE rstrip(_)
rstrip(s) ==
  IF s # <<>> /\ s[Len(s)] \in Whitespace THEN rstrip(SubSeq(s, 1, Len(s) - 1)) ELSE s

\* str.strip()
strip(s) == rstrip(lstrip(s))

\* upper-casing of one character; "sharp_s" stands for the single character
\* U+00DF, whose upper case is the two letters SS
UpperChar(c) ==
  CASE c = "u" -> <<"U">>
    [] c = "s" -> <<"S">>
    [] c = "d" -> <<"D">>
    [] c = "e" -> <<"E">>
    [] c = "sharp_s" -> <<"S", "S">>
    [] OTHER -> <<c>>

\* str.upper()
RECURSIVE upper(_)
upper(s) == IF s = <<>> THEN <<>> ELSE UpperChar(Head(s)) \o upper(Tail(s))

\* --- URLs: a URL text is a sequence of lexical tokens -------------------

Schemes == {"https", "http", "ftp"}

Hosts == {"a.test"}

\* urllib.parse.urlparse, reduced to the two components validate_url reads
urlparse(u) ==
  [scheme |-> IF Len(u) >= 2 /\ u[1] \in Schemes /\ u[2] = "://" THEN u[1] ELSE "",
   netloc |-> IF Len(u) >= 3 /\ u[1] \in Schemes /\ u[2] = "://" /\ u[3] \in Hosts
              THEN u[3] ELSE ""]

\* pydantic HttpUrl: scheme http or https and a host
HttpUrl(u) ==
  /\ urlparse(u).scheme \in {"http", "https"}
  /\ urlparse(u).netloc # ""

\* --- field validation ---------------------------------------------------
\* A field check yields [ok, value, msg]; value is the normalised Optional.

Ok(v) == [ok |-> TRUE, value |-> v, msg |-> "-"]

Err(m) == [ok |-> FALSE, value |-> None, msg |-> m]

TitleMaxLength == 500

NameMaxLength == 500

CurrencyMaxLength == 3

\* @validator('url')
validate_url(v) ==
  IF urlparse(v).scheme = "" \/ urlparse(v).netloc = ""
  THEN Err("Invalid URL format") ELSE Ok(Some(v))

\* url: HttpUrl = Field(...)
url_field(o) ==
  IF IsNone(o) THEN Err("field required")
  ELSE IF ~HttpUrl(o[1]) THEN Err("invalid or missing URL scheme")
  ELSE validate_url(o[1])

\* variant: only leading whitespace is removed
validate_title_lstrip(o) ==
  IF ~IsNone(o) /\ o[1] # <<>>
  THEN IF lstrip(o[1]) = <<>> THEN Ok(None) ELSE Ok(Some(lstrip(o[1])))
  ELSE Ok(o)

\* @validator('title')
validate_title(o) ==
  IF ~IsNone(o) /\ o[1] # <<>>
  THEN IF strip(o[1]) = <<>> THEN Ok(None) ELSE Ok(Some(strip(o[1])))
  ELSE Ok(o)

\* title: Optional[str] = Field(None, max_length=500)
title_field(o) ==
  IF ~IsNone(o) /\ Len(o[1]) > TitleMaxLength
  THEN Err("ensure this value has at most 500 characters")
  ELSE validate_title(o)

\* name: str = Field(..., min_length=1, max_length=500)
name_field(o) ==
  IF IsNone(o) THEN Err("field required")
  ELSE IF Len(o[1]) < 1 THEN Err("ensure this value has at least 1 characters")
  ELSE IF Len(o[1]) > NameMaxLength THEN Err("ensure this value has at most 500 characters")
  ELSE Ok(o)

\* price: Optional[float] = Field(None, ge=0)
price_field(o) ==
  IF ~IsNone(o) /\ ~(o[1] >= 0)
  THEN Err("ensure this value is greater than or equal to 0")
  ELSE Ok(o)

\* @validator('currency')
validate_currency(o) ==
  IF ~IsNone(o) /\ o[1] # <<>>
  THEN IF Len(upper(o[1])) # 3 THEN Err("Currency code must be 3 characters")
       ELSE Ok(Some(upper(o[1])))
  ELSE Ok(o)

\* currency: Optional[str] = Field(None, max_length=3)
currency_field(o) ==
  IF ~IsNone(o) /\ Len(o[1]) > CurrencyMaxLength
  THEN Err("ensure this value has at most 3 characters")
  ELSE validate_currency(o)

\* --- the schemas --------------------------------------------------------

ModelClasses == {"ScrapedDataModel", "ProductModel"}

NoModel == [cls |-> "-", url |-> None, title |-> None, name |-> None,
            price |-> None, currency |-> None]

\* fields declared by the class, in declaration order, each with its check
Checks(cls, data) ==
  IF cls = "ProductModel"
  THEN << [loc |-> "url",      r |-> url_field(data.url)],
          [loc |-> "title",    r |-> title_field(data.title)],
          [loc |-> "name",     r |-> name_field(data.name)],
          [loc |-> "price",    r |-> price_field(data.price)],
          [loc |-> "currency", r |-> currency_field(data.currency)] >>
  ELSE << [loc |-> "url",      r |-> url_field(data.url)],
          [loc |-> "title",    r |-> title_field(data.title)] >>

Failed(c) == ~c.r.ok

\* e.errors(): one entry per violated field, in field order
Errors(checks) ==
  LET bad == SelectSeq(checks, Failed)
  IN  [i \in 1 .. Len(bad) |-> [loc |-> bad[i].loc, msg |-> bad[i].r.msg]]

\* value of field f of the constructed model: the checked value of a
\* declared field; Config.extra = "allow" keeps any other key as given
FieldValue(checks, data, f) ==
  LET hit == {i \in 1 .. Len(checks) : checks[i].loc = f}
  IN  IF hit = {} THEN data[f] ELSE checks[CHOOSE i \in hit : TRUE].r.value

\* pydantic BaseModel.__init__ once every declared field was checked
Build(cls, data, checks, errors) ==
  IF errors # <<>>
  THEN [kind |-> "ValidationError", model |-> NoModel, errors |-> errors]
  ELSE [kind |-> "ok",
        model |-> [cls |-> cls,
                   url |-> FieldValue(checks, data, "url"),
                   title |-> FieldValue(checks, data, "title"),
                   name |-> FieldValue(checks, data, "name"),
                   price |-> FieldValue(checks, data, "price"),
                   currency |-> FieldValue(checks, data, "currency")],
        errors |-> <<>>]

\* model_class(**data).  A mapping with a key that is not a str cannot be
\* unpacked into keyword arguments: TypeError.
Construct(cls, data) ==
  IF data.nonstr_keys
  THEN [kind |-> "TypeError", model |-> NoModel, errors |-> <<>>]
  ELSE Build(cls, data, Checks(cls, data), Errors(Checks(cls, data)))

\* --- DataValidator ------------------------------------------------------

Warning(m) == [level |-> "WARNING", msg |-> m, total |-> 0, valid |-> 0, invalid |-> 0]

Error(m) == [level |-> "ERROR", msg |-> m, total |-> 0, valid |-> 0, invalid |-> 0]

Summary(n, v, i) == [level |-> "INFO", msg |-> "Validated", total |-> n, valid |-> v, invalid |-> i]

\* the mutable fields of a DataValidator
Self == [valid_count |-> valid_count, invalid_count |-> invalid_count,
         validation_errors |-> validation_errors]

\* variant: validate has no `except Exception` clause
validate_excepts_noexception == <<"ValidationError">>

\* the except clauses of validate, in textual order
validate_excepts == <<"ValidationError", "Exception">>

\* variant: the `except Exception` branch does not count the record
validate_on_uncounted(cls, s, data) ==
  LET c == Construct(cls, data)
      clause == ExceptClause(validate_excepts, c.kind)
  IN  IF c.kind = "ok"
      THEN [self |-> [s EXCEPT !.valid_count = @ + 1],
            ret  |-> Some(c.model),
            log  |-> <<>>,
            raised |-> FALSE]
      ELSE IF clause = "ValidationError"
      THEN [self |-> [s EXCEPT !.invalid_count = @ + 1,
                               !.validation_errors =
                                  Append(@, [data |-> data, errors |-> c.errors])],
            ret  |-> None,
            log  |-> <<Warning("Validation failed")>>,
            raised |-> FALSE]
      ELSE IF clause = "Exception"
      THEN [self |-> s,
            ret  |-> None,
            log  |-> <<Error("Unexpected validation error")>>,
            raised |-> FALSE]
      ELSE [self |-> s, ret |-> None, log |-> <<>>, raised |-> TRUE]

\* DataValidator.validate on the validator state s: the state after the
\* call, the returned value, the log records written, and whether the
\* exception of model_class(**data) left the function
validate_on(cls, s, data) ==
  LET c == Construct(cls, data)
      clause == ExceptClause(validate_excepts, c.kind)
  IN  IF c.kind = "ok"
      THEN [self |-> [s EXCEPT !.valid_count = @ + 1],
            ret  |-> Some(c.model),
            log  |-> <<>>,
            raised |-> FALSE]
      ELSE IF clause = "ValidationError"
      THEN [self |-> [s EXCEPT !.invalid_count = @ + 1,
                               !.validation_errors =
                                  Append(@, [data |-> data, errors |-> c.errors])],
            ret  |-> None,
            log  |-> <<Warning("Validation failed")>>,
            raised |-> FALSE]
      ELSE IF clause = "Exception"
      THEN [self |-> [s EXCEPT !.invalid_count = @ + 1],
            ret  |-> None,
            log  |-> <<Error("Unexpected validation error")>>,
            raised |-> FALSE]
      ELSE [self |-> s, ret |-> None, log |-> <<>>, raised |-> TRUE]

\* truth value of the object validate returns: None is false, a pydantic
\* model instance defines neither __bool__ nor __len__ and is true
Truthy(o) == ~IsNone(o)

\* variant: accepted items are inserted at the front of the result
RECURSIVE batch_loop_prepend(_, _, _, _, _)
batch_loop_prepend(cls, s, data_list, i, validated_items) ==
  IF i > Len(data_list)
  THEN [self |-> s, items |-> validated_items, log |-> <<>>, raised |-> FALSE]
  ELSE LET v == validate_on(cls, s, data_list[i])
           rest == batch_loop_prepend(cls, v.self, data_list, i + 1,
                              IF Truthy(v.ret) THEN <<v.ret[1]>> \o validated_items
                              ELSE validated_items)
       IN  IF v.raised
           THEN [self |-> v.self, items |-> validated_items, log |-> v.log,
                 raised |-> TRUE]
           ELSE [rest EXCEPT !.log = v.log \o @]

\* the loop of validate_batch over data_list[i..]; an exception that leaves
\* validate leaves the loop as well
RECURSIVE batch_loop(_, _, _, _, _)
batch_loop(cls, s, data_list, i, validated_items) ==
  IF i > Len(data_list)
  THEN [self |-> s, items |-> validated_items, log |-> <<>>, raised |-> FALSE]
  ELSE LET v == validate_on(cls, s, data_list[i])
           rest == batch_loop(cls, v.self, data_list, i + 1,
                              IF Truthy(v.ret) THEN Append(validated_items, v.ret[1])
                              ELSE validated_items)
       IN  IF v.raised
           THEN [self |-> v.self, items |-> validated_items, log |-> v.log,
                 raised |-> TRUE]
           ELSE [rest EXCEPT !.log = v.log \o @]

\* success_rate as an exact fraction; the literal 0 when nothing was counted
Zero == [num |-> 0, den |-> 1]

success_rate(s) ==
  IF s.valid_count + s.invalid_count > 0
  THEN [num |-> s.valid_count, den |-> s.valid_count + s.invalid_count]
  ELSE Zero

report_of(s) ==
  [valid_count |-> s.valid_count,
   invalid_count |-> s.invalid_count,
   success_rate |-> success_rate(s),
   errors |-> s.validation_errors]

\* --- the records the pipeline is exercised with -------------------------

Rec(k, u, t, n, p, c) ==
  [nonstr_keys |-> k, url |-> u, title |-> t, name |-> n, price |-> p, currency |-> c]

GoodUrl == <<"https", "://", "a.test", "/p">>

Widget == <<"W", "i", "d", "g", "e", "t">>

\* {url: "https://a.test/p", name: "Widget", price: 9.99, currency: "usd"}
widget_usd == Rec(FALSE, Some(GoodUrl), None, Some(Widget), Some(999), Some(<<"u", "s", "d">>))

\* {url: "https://a.test/p", name: "Widget", price: -5}
widget_neg == Rec(FALSE, Some(GoodUrl), None, Some(Widget), Some(-500), None)

\* {url: "https://a.test/p", title: " t "}
page_title == Rec(FALSE, Some(GoodUrl), Some(<<" ", "t", " ">>), None, None, None)

\* {url: "a.test/p", name: "Widget", price: -5}: two violations under ProductModel
no_scheme == Rec(FALSE, Some(<<"a.test", "/p">>), None, Some(Widget), Some(-500), None)

\* {1: "x"}: not usable as keyword arguments
bad_keys == Rec(TRUE, None, None, None, None, None)

Records == {widget_usd, widget_neg, page_title, no_scheme, bad_keys}

\* lists of at most n records
Lists(n) == UNION {[1 .. k -> Records] : k \in 0 .. n}

BatchInputs == Lists(MaxBatch)

\* --- actions ------------------------------------------------------------

\* what an operation finds when it starts
Before ==
  [model_class |-> model_class, valid_count |-> valid_count,
   invalid_count |-> invalid_count, nerrors |-> Len(validation_errors),
   lastOp |-> lastOp]

\* DataValidator.__init__
DataValidator_init(cls) ==
  /\ model_class' = cls
  /\ validation_errors' = <<>>
  /\ valid_count' = 0
  /\ invalid_count' = 0
  /\ passed' = 0
  /\ before' = Before
  /\ lastOp' = "init"
  /\ arg' = <<>>
  /\ ret' = <<>>
  /\ log' = <<>>
  /\ escaped' = FALSE
  /\ UNCHANGED <<fvars, tvars>>

\* DataValidator.validate
validate(data) ==
  /\ passed < MaxPassed
  /\ \E v \in {validate_on(model_class, Self, data)} :
         /\ valid_count' = v.self.valid_count
         /\ invalid_count' = v.self.invalid_count
         /\ validation_errors' = v.self.validation_errors
         /\ ret' = v.ret
         /\ log' = v.log
         /\ escaped' = v.raised
  /\ passed' = passed + 1
  /\ before' = Before
  /\ lastOp' = "validate"
  /\ arg' = <<data>>
  /\ UNCHANGED model_class
  /\ UNCHANGED <<fvars, tvars>>

\* DataValidator.validate_batch
validate_batch(data_list) ==
  /\ passed + Len(data_list) <= MaxPassed
  /\ \E b \in {batch_loop(model_class, Self, data_list, 1, <<>>)} :
         /\ valid_count' = b.self.valid_count
         /\ invalid_count' = b.self.invalid_count
         /\ validation_errors' = b.self.validation_errors
         /\ ret' = b.items
         /\ log' = IF b.raised THEN b.log
                   ELSE b.log \o <<Summary(Len(data_list), b.self.valid_count,
                                            b.self.invalid_count)>>
         /\ escaped' = b.raised
  /\ passed' = passed + Len(data_list)
  /\ before' = Before
  /\ lastOp' = "validate_batch"
  /\ arg' = data_list
  /\ UNCHANGED model_class
  /\ UNCHANGED <<fvars, tvars>>

\* variant: taking the report also clears the failure list
get_validation_report_clearing ==
  /\ ret' = <<report_of(Self)>>
  /\ validation_errors' = <<>>
  /\ before' = Before
  /\ lastOp' = "get_validation_report"
  /\ arg' = <<>>
  /\ log' = <<>>
  /\ escaped' = FALSE
  /\ UNCHANGED <<model_class, valid_count, invalid_count, passed>>
  /\ UNCHANGED <<fvars, tvars>>

\* DataValidator.get_validation_report
get_validation_report ==
  /\ ret' = <<report_of(Self)>>
  /\ before' = Before
  /\ lastOp' = "get_validation_report"
  /\ arg' = <<>>
  /\ log' = <<>>
  /\ escaped' = FALSE
  /\ UNCHANGED <<model_class, validation_errors, valid_count, invalid_count, passed>>
  /\ UNCHANGED <<fvars, tvars>>

\* variant: reset_stats leaves valid_count as it is
reset_stats_keeps_valid ==
  /\ validation_errors' = <<>>
  /\ invalid_count' = 0
  /\ passed' = 0
  /\ before' = Before
  /\ lastOp' = "reset_stats"
  /\ arg' = <<>>
  /\ ret' = <<>>
  /\ log' = <<>>
  /\ escaped' = FALSE
  /\ UNCHANGED <<model_class, valid_count>>
  /\ UNCHANGED <<fvars, tvars>>

\* DataValidator.reset_stats
reset_stats ==
  /\ validation_errors' = <<>>
  /\ valid_count' = 0
  /\ invalid_count' = 0
  /\ passed' = 0
  /\ before' = Before
  /\ lastOp' = "reset_stats"
  /\ arg' = <<>>
  /\ ret' = <<>>
  /\ log' = <<>>
  /\ escaped' = FALSE
  /\ UNCHANGED model_class
  /\ UNCHANGED <<fvars, tvars>>

ValidateInit ==
  /\ model_class \in ModelClasses
  /\ validation_errors = <<>>
  /\ valid_count = 0
  /\ invalid_count = 0
  /\ passed = 0
  /\ before = [model_class |-> model_class, valid_count |-> 0, invalid_count |-> 0,
               nerrors |-> 0, lastOp |-> "none"]
  /\ lastOp = "init"
  /\ arg = <<>>
  /\ ret = <<>>
  /\ log = <<>>
  /\ escaped = FALSE

ValidateNext ==
  \/ \E cls \in ModelClasses : DataValidator_init(cls)
  \/ \E data \in Records : validate(data)
  \/ \E data_list \in BatchInputs : validate_batch(data_list)
  \/ get_validation_report
  \/ reset_stats

\* --- records that vary title and currency -------------------------------

Titles == {None, Some(<<>>), Some(<<" ">>), Some(<<" ", "t", " ">>), Some(<<"t">>)}

Currencies == {None, Some(<<>>), Some(<<"u", "s">>), Some(<<"u", "s", "d">>),
               Some(<<"U", "S", "D">>), Some(<<"u", "sharp_s">>),
               Some(<<"u", "s", "d", "e">>)}

WideRecords ==
  {Rec(FALSE, Some(GoodUrl), t, Some(Widget), Some(999), c) :
     t \in Titles, c \in Currencies}
  \cup {no_scheme, bad_keys}

\* validate on a record of the wide set
validate_wide(data) ==
  /\ passed < MaxWidePassed
  /\ validate(data)

NormalizeNext ==
  \/ \E cls \in ModelClasses : DataValidator_init(cls)
  \/ \E data \in WideRecords : validate_wide(data)
  \/ reset_stats

\* --- threads calling validate on one DataValidator ----------------------
\* `self.valid_count += 1` reads the attribute, adds and writes it back; a
\* thread switch can fall between the read and the write.  list.append is
\* one step.

Threads == 1 .. NThreads

Idle == [pc |-> "idle", data |-> None, kind |-> "-", loaded |-> 0]

\* the branch of validate a record takes
BranchOf(cls, data) ==
  IF Construct(cls, data).kind = "ok" THEN "ok"
  ELSE ExceptClause(validate_excepts, Construct(cls, data).kind)

\* validated = self.model_class(**data)
t_construct(t, data) ==
  /\ threads[t].pc = "idle"
  /\ passed < MaxPassed
  /\ passed' = passed + 1
  /\ threads' = [threads EXCEPT ![t] = [pc |-> "load", data |-> Some(data),
                                        kind |-> BranchOf(model_class, data),
                                        loaded |-> 0]]
  /\ UNCHANGED <<model_class, validation_errors, valid_count, invalid_count,
                 before, lastOp, arg, ret, log, escaped>>
  /\ UNCHANGED fvars

\* the read of `self.valid_count += 1` / `self.invalid_count += 1`
t_load(t) ==
  /\ threads[t].pc = "load"
  /\ threads' = [threads EXCEPT ![t].pc = "store",
                                ![t].loaded = IF threads[t].kind = "ok"
                                              THEN valid_count ELSE invalid_count]
  /\ UNCHANGED vvars
  /\ UNCHANGED fvars

\* the write of `self.valid_count += 1` / `self.invalid_count += 1`
t_store(t) ==
  /\ threads[t].pc = "store"
  /\ IF threads[t].kind = "ok"
       THEN valid_count' = threads[t].loaded + 1 /\ UNCHANGED invalid_count
       ELSE invalid_count' = threads[t].loaded + 1 /\ UNCHANGED valid_count
  /\ threads' = [threads EXCEPT ![t].pc = IF threads[t].kind = "ValidationError"
                                          THEN "append" ELSE "done"]
  /\ UNCHANGED <<model_class, validation_errors, passed,
                 before, lastOp, arg, ret, log, escaped>>
  /\ UNCHANGED fvars

\* self.validation_errors.append(...)
t_append(t) ==
  /\ threads[t].pc = "append"
  /\ validation_errors' =
        Append(validation_errors,
               [data |-> threads[t].data[1],
                errors |-> Construct(model_class, threads[t].data[1]).errors])
  /\ threads' = [threads EXCEPT ![t].pc = "done"]
  /\ UNCHANGED <<model_class, valid_count, invalid_count, passed,
                 before, lastOp, arg, ret, log, escaped>>
  /\ UNCHANGED fvars

\* the return of validate; the thread may call again
t_return(t) ==
  /\ threads[t].pc = "done"
  /\ threads' = [threads EXCEPT ![t] = Idle]
  /\ UNCHANGED vvars
  /\ UNCHANGED fvars

ThreadsInit == threads = [t \in Threads |-> Idle]

ThreadsNext ==
  \/ \E t \in Threads, data \in Records : t_construct(t, data)
  \/ \E t \in Threads : t_load(t)
  \/ \E t \in Threads : t_store(t)
  \/ \E t \in Threads : t_append(t)
  \/ \E t \in Threads : t_return(t)

\* ========================================================================
\* Specifications
\* ========================================================================

Init == FetchInit /\ ValidateInit /\ ThreadsInit

\* one DataValidator fed records that vary title and currency
SpecNormalize == Init /\ [][NormalizeNext]_vars

\* one DataValidator shared by NThreads threads without a lock
SpecThreads == Init /\ [][ThreadsNext]_vars

\* the fetcher on its own
SpecFetch == Init /\ [][FetchNext]_vars

\* one DataValidator used by one thread
SpecValidate == Init /\ [][ValidateNext]_vars

\* a running call makes progress: requests.get returns or raises within the
\* timeout, and time.sleep returns
AttemptStep == \E o \in Outcomes : fetch_html_attempt(o) \/ session_attempt(o)

SpecFetchFair == SpecFetch /\ WF_vars(AttemptStep)

\* ========================================================================
\* Properties
\* ========================================================================

\* --- vocabulary of the fetcher properties -------------------------------

IsGet(e) == e.ev = "get"

IsSleep(e) == e.ev = "sleep"

\* number of network attempts of the running call
Attempts == Len(SelectSeq(trace, IsGet))

\* the delays slept by the running call, in order
Delays == [i \in 1 .. Len(SelectSeq(trace, IsSleep)) |-> SelectSeq(trace, IsSleep)[i].delay]

\* zero-based index of the attempt recorded at position i of the trace
AttemptIndex(i) == Cardinality({j \in 1 .. i - 1 : IsGet(trace[j])})

Is2xx(o) == o.cls = "Response" /\ o.status \in 200 .. 299

Is4xx(o) == o.cls = "Response" /\ o.status \in 400 .. 499

Is5xx(o) == o.cls = "Response" /\ o.status \in 500 .. 599

IsTimeout(o) == o.cls \in {"ReadTimeout", "ConnectTimeout"}

IsConnectionFailure(o) == o.cls = "ConnectionError"

IsOtherTransportError(o) == o.cls = "TooManyRedirects"

RetryableFailure(o) == IsTimeout(o) \/ IsConnectionFailure(o) \/ Is5xx(o)

TerminalFailure(o) == Is4xx(o) \/ IsOtherTransportError(o)

\* FailureKind of the branch that returned the failure value
FailureKind ==
  CASE branch = "Timeout"          -> "Timeout"
    [] branch = "ConnectionError"  -> "ConnectionFailed"
    [] branch = "HTTPError_4xx"    -> "ClientError"
    [] branch = "HTTPError_5xx"    -> "ServerError"
    [] branch = "RequestException" -> "OtherTransportError"
    [] OTHER                       -> "-"

\* --- C3 -----------------------------------------------------------------
\* C3: in fetch_html a 4xx response is the last event of its call: the call
\* has returned the failure value, and no attempt and no sleep follows it,
\* whatever retries is and however many attempts remain.
C3_ClientErrorEndsCall ==
  fn = "fetch_html" =>
    \A i \in 1 .. Len(trace) :
      (IsGet(trace[i]) /\ Is4xx(trace[i].out)) =>
        /\ i = Len(trace)
        /\ fpc = "done"
        /\ IsNone(result)

\* a 4xx answer to the second of three allowed attempts
C3_Witness ==
  /\ fn = "fetch_html"
  /\ retries = 3
  /\ Attempts = 2
  /\ Is4xx(trace[Len(trace)].out)
  /\ fpc = "done"

\* --- C4 -----------------------------------------------------------------
\* C4: fetch_html with retries = N >= 1 never makes more than N attempts; a
\* terminal failure (4xx or other transport error) is attempted once and is
\* the last event of its call, so a call whose request fails terminally
\* makes exactly 1 attempt and nothing is attempted after a terminal failure.
C4_AttemptBudget ==
  (fn = "fetch_html" /\ retries >= 1) =>
    /\ Attempts <= retries
    /\ \A i \in 1 .. Len(trace) :
         (IsGet(trace[i]) /\ TerminalFailure(trace[i].out)) =>
           /\ i = Len(trace)
           /\ fpc = "done"
           /\ IsNone(result)
    /\ (trace # <<>> /\ TerminalFailure(trace[1].out)) => Attempts = 1

\* a transport error that is neither timeout nor connection failure, with
\* attempts to spare
C4_Witness ==
  /\ fn = "fetch_html"
  /\ retries = 3
  /\ fpc = "done"
  /\ Attempts = 1
  /\ IsOtherTransportError(trace[1].out)

\* --- C5 -----------------------------------------------------------------
\* C5: a fetch_html call in which every attempt got a 5xx response returns
\* only after exactly retries attempts, with the failure value, from the 5xx
\* branch (ServerError); with backoff_factor = 0 every delay in between is 0.
C5_ServerErrorExhaustsRetries ==
  (/\ fn = "fetch_html"
   /\ retries >= 1
   /\ fpc = "done"
   /\ \A i \in 1 .. Len(trace) : IsGet(trace[i]) => Is5xx(trace[i].out)) =>
    /\ Attempts = retries
    /\ IsNone(result)
    /\ FailureKind = "ServerError"
    /\ Len(Delays) = retries - 1
    /\ backoff_factor = 0 => \A k \in 1 .. Len(Delays) : Delays[k] = 0

\* three 5xx responses with retries = 3 and backoff_factor = 0
C5_Witness ==
  /\ fn = "fetch_html"
  /\ retries = 3
  /\ backoff_factor = 0
  /\ fpc = "done"
  /\ Attempts = 3
  /\ \A i \in 1 .. Len(trace) : IsGet(trace[i]) => trace[i].out.status = 503

\* --- C6 -----------------------------------------------------------------
\* C6: in fetch_html a retryable failure of attempt a <= retries - 2 is
\* followed by a sleep of backoff_factor * 2^a, whichever of the three
\* retryable kinds it is; the delays of a call never decrease and are all 0
\* when backoff_factor is 0.
C6_BackoffDelays ==
  fn = "fetch_html" =>
    /\ \A i \in 1 .. Len(trace) :
         (/\ IsGet(trace[i])
          /\ RetryableFailure(trace[i].out)
          /\ AttemptIndex(i) <= retries - 2) =>
           /\ i < Len(trace)
           /\ trace[i + 1] = Sleep(backoff_factor * 2 ^ AttemptIndex(i))
    /\ \A k \in 1 .. Len(Delays) - 1 : Delays[k] <= Delays[k + 1]
    /\ backoff_factor = 0 => \A k \in 1 .. Len(Delays) : Delays[k] = 0

\* three sleeps of one call, after a timeout, a connection failure and a 5xx
C6_Witness ==
  /\ fn = "fetch_html"
  /\ backoff_factor = 300
  /\ Delays = <<300, 600, 1200>>
  /\ \E i, j, k \in 1 .. Len(trace) :
       /\ IsGet(trace[i]) /\ IsTimeout(trace[i].out)
       /\ IsGet(trace[j]) /\ IsConnectionFailure(trace[j].out)
       /\ IsGet(trace[k]) /\ Is5xx(trace[k].out) /\ AttemptIndex(k) = 2

\* --- C7 -----------------------------------------------------------------
\* C7: in fetch_html a 2xx response is the last event of its call and the
\* call has returned that response's body: no attempt and no sleep follows,
\* on the first attempt as after earlier retryable failures.
C7_SuccessEndsCall ==
  fn = "fetch_html" =>
    \A i \in 1 .. Len(trace) :
      (IsGet(trace[i]) /\ Is2xx(trace[i].out)) =>
        /\ i = Len(trace)
        /\ fpc = "done"
        /\ result = Some(trace[i].out.text)

\* a 200 with a body on the third attempt, after two retryable failures
C7_Witness ==
  /\ fn = "fetch_html"
  /\ Attempts = 3
  /\ trace[Len(trace)].out.status = 200
  /\ result = Some(<<"h">>)
  /\ fpc = "done"

\* --- C8 -----------------------------------------------------------------
\* C8: neither fetch function lets an exception of the request escape: a
\* call never ends by raising, every call that entered its loop returns, and
\* what it returns is the body or None.
C8_NoExceptionEscapes ==
  /\ [](fpc # "raised")
  /\ [](fpc = "done" => Len(result) <= 1)
  /\ (fpc = "loop") ~> (fpc = "done")

\* both functions have returned after a transport error of the catch-all kind
C8_Witness ==
  /\ fpc = "done"
  /\ fn = "fetch_html_with_session"
  /\ Attempts = retries
  /\ \E i \in 1 .. Len(trace) : IsGet(trace[i]) /\ IsOtherTransportError(trace[i].out)

\* --- vocabulary of the validator properties -----------------------------

Accepted(d) == Construct(model_class, d).kind = "ok"

Rejected(d) == ~Accepted(d)

\* --- C1 -----------------------------------------------------------------
\* C1: valid_count + invalid_count is the number of records handed to
\* validate / validate_batch since construction or the last reset_stats; a
\* validate_batch call raises the sum by the length of its batch, a validate
\* call raises exactly one of the two counters by one, and no call lowers
\* either counter.
C1_CountsEqualRecordsPassed ==
  /\ valid_count + invalid_count = passed
  /\ lastOp = "validate_batch" =>
       /\ (valid_count + invalid_count)
            - (before.valid_count + before.invalid_count) = Len(arg)
       /\ valid_count >= before.valid_count
       /\ invalid_count >= before.invalid_count
  /\ lastOp = "validate" =>
       \/ /\ valid_count = before.valid_count + 1
          /\ invalid_count = before.invalid_count
       \/ /\ valid_count = before.valid_count
          /\ invalid_count = before.invalid_count + 1
  /\ lastOp = "get_validation_report" =>
       /\ valid_count = before.valid_count
       /\ invalid_count = before.invalid_count

\* a batch of two, one accepted and one rejected, on a validator that
\* already counted a record
C1_Witness ==
  /\ lastOp = "validate_batch"
  /\ Len(arg) = 2
  /\ before.valid_count + before.invalid_count = 1
  /\ valid_count = before.valid_count + 1
  /\ invalid_count = before.invalid_count + 1

\* --- C2 -----------------------------------------------------------------
\* C2: the failure list has one entry per rejected record: its length is
\* invalid_count, and every entry holds a record the schema rejects.
C2_EveryRejectRetained ==
  /\ Len(validation_errors) = invalid_count
  /\ \A i \in 1 .. Len(validation_errors) : Rejected(validation_errors[i].data)

\* --- C9 -----------------------------------------------------------------
\* C9: validate_batch returns the validated form of exactly the accepted
\* records of its input, in input order.
AcceptedOf(data_list) ==
  LET acc == SelectSeq(data_list, Accepted)
  IN  [i \in 1 .. Len(acc) |-> Construct(model_class, acc[i]).model]

C9_BatchIsAcceptedSubsequence ==
  lastOp = "validate_batch" => ret = AcceptedOf(arg)

\* two different accepted records with a rejected one between them
C9_Witness ==
  /\ lastOp = "validate_batch"
  /\ Len(arg) = 3
  /\ Accepted(arg[1]) /\ Rejected(arg[2]) /\ Accepted(arg[3])
  /\ arg[1] # arg[3]
  /\ Len(ret) = 2

\* --- C10 ----------------------------------------------------------------
\* C10: reset_stats leaves both counters 0 and the failure list empty and
\* does not touch model_class; a report taken right after it has
\* success_rate 0.
C10_ResetRestoresFresh ==
  /\ lastOp = "reset_stats" =>
       /\ valid_count = 0
       /\ invalid_count = 0
       /\ validation_errors = <<>>
       /\ model_class = before.model_class
       /\ report_of(Self).success_rate = Zero
  /\ (lastOp = "get_validation_report" /\ before.lastOp = "reset_stats") =>
       ret[1].success_rate = Zero

\* a reset of a ProductModel validator that held counts and failures
C10_Witness ==
  /\ lastOp = "reset_stats"
  /\ model_class = "ProductModel"
  /\ before.valid_count >= 1
  /\ before.nerrors >= 1

\* --- C11 ----------------------------------------------------------------
\* C11: no exception of model_class(**data) leaves validate or
\* validate_batch, and a validate call on a record the schema rejects, by a
\* ValidationError or by any other exception, returns None, raises
\* invalid_count by exactly 1 and leaves valid_count as it was.
C11_RejectCountedOnce ==
  /\ ~escaped
  /\ (lastOp = "validate" /\ Rejected(arg[1])) =>
       /\ ret = None
       /\ invalid_count = before.invalid_count + 1
       /\ valid_count = before.valid_count

\* a record that fails with a TypeError, on a validator holding both counts
C11_Witness ==
  /\ lastOp = "validate"
  /\ arg[1] = bad_keys
  /\ before.valid_count = 1
  /\ before.invalid_count = 1
  /\ invalid_count = 2

\* --- C12 ----------------------------------------------------------------
\* the title an accepted record carries: trimmed, and absent when it was
\* not empty and held nothing but whitespace
ExpectedTitle(o) ==
  IF IsNone(o) THEN None
  ELSE IF o[1] # <<>> /\ strip(o[1]) = <<>> THEN None
  ELSE Some(strip(o[1]))

\* the title of the claim as stated: the trimmed text of the input
TrimmedTitle(o) == IF IsNone(o) THEN None ELSE Some(strip(o[1]))

\* the currency an accepted record carries: upper-cased where the schema
\* declares the field, as given elsewhere
ExpectedCurrency(cls, o) ==
  IF cls = "ProductModel" /\ ~IsNone(o) THEN Some(upper(o[1])) ELSE o

\* validate accepted its argument, counted it as valid and touched nothing else
AcceptedAndCounted ==
  /\ ~IsNone(ret)
  /\ valid_count = before.valid_count + 1
  /\ invalid_count = before.invalid_count
  /\ Len(validation_errors) = before.nerrors

\* C12 as stated: an accepted record comes back with its title trimmed and
\* its currency upper-cased, every other field as given, valid_count one
\* higher, invalid_count and the failure list untouched.
C12_RoundTripAsStated ==
  (lastOp = "validate" /\ Accepted(arg[1])) =>
    /\ AcceptedAndCounted
    /\ ret[1].url = arg[1].url
    /\ ret[1].name = arg[1].name
    /\ ret[1].price = arg[1].price
    /\ ret[1].title = TrimmedTitle(arg[1].title)
    /\ ret[1].currency = ExpectedCurrency(model_class, arg[1].currency)

\* C12 amended: as C12, except that a title that is not empty and holds only
\* whitespace comes back absent (None), not as the empty text.
C12_RoundTripNormalized ==
  (lastOp = "validate" /\ Accepted(arg[1])) =>
    /\ AcceptedAndCounted
    /\ ret[1].url = arg[1].url
    /\ ret[1].name = arg[1].name
    /\ ret[1].price = arg[1].price
    /\ ret[1].title = ExpectedTitle(arg[1].title)
    /\ ret[1].currency = ExpectedCurrency(model_class, arg[1].currency)

\* a product with title " t " and currency "usd", accepted by a validator
\* whose failure list already has an entry
C12_Witness ==
  /\ lastOp = "validate"
  /\ model_class = "ProductModel"
  /\ arg[1].title = Some(<<" ", "t", " ">>)
  /\ arg[1].currency = Some(<<"u", "s", "d">>)
  /\ ~IsNone(ret)
  /\ ret[1].title = Some(<<"t">>)
  /\ ret[1].currency = Some(<<"U", "S", "D">>)
  /\ before.nerrors = 1

\* --- C13 ----------------------------------------------------------------
IsFailure(o) == o.cls # "Response" \/ Is4xx(o) \/ Is5xx(o)

\* C13: in fetch_html_with_session every failed attempt a <= retries - 2,
\* a 4xx response included, is followed by a sleep of 0.3 s * 2^a and
\* another attempt; the call returns only on a response that is not a
\* failure or when retries attempts were made.
C13_SessionRetriesEveryFailure ==
  (fn = "fetch_html_with_session" /\ retries >= 1) =>
    /\ \A i \in 1 .. Len(trace) :
         (IsGet(trace[i]) /\ IsFailure(trace[i].out) /\ AttemptIndex(i) <= retries - 2) =>
           /\ i < Len(trace)
           /\ trace[i + 1] = Sleep(SessionBackoff * 2 ^ AttemptIndex(i))
    /\ fpc = "done" =>
         \/ Attempts = retries /\ IsNone(result)
         \/ ~IsFailure(trace[Len(trace)].out) /\ result = Some(trace[Len(trace)].out.text)

\* a 404 on the first attempt, retried until the four attempts are used up
C13_Witness ==
  /\ fn = "fetch_html_with_session"
  /\ retries = 4
  /\ fpc = "done"
  /\ Attempts = 4
  /\ trace[1].out.status = 404
  /\ Delays = <<300, 600, 1200>>

\* --- C14 ----------------------------------------------------------------
Quiescent == \A t \in Threads : threads[t].pc \in {"idle", "done"}

\* C14: when no thread is inside validate, no count update was lost, so
\* valid_count + invalid_count is the number of records validated, and every
\* record a finished thread saw rejected by the schema has its entry in the
\* failure list.
C14_NoLostUpdate ==
  Quiescent =>
    /\ valid_count + invalid_count = passed
    /\ \A t \in Threads :
         (threads[t].pc = "done" /\ threads[t].kind = "ValidationError") =>
           \E i \in 1 .. Len(validation_errors) :
             validation_errors[i].data = threads[t].data[1]

\* --- C15 ----------------------------------------------------------------
Fresh == valid_count = 0 /\ invalid_count = 0 /\ validation_errors = <<>>

WasFresh == before.valid_count = 0 /\ before.invalid_count = 0 /\ before.nerrors = 0

\* C15: the validator is Fresh after construction and after reset_stats and
\* holds at least one count after a validate call; only reset_stats (or a
\* new construction) takes it from not Fresh to Fresh; validate,
\* validate_batch and get_validation_report never lower a counter or shorten
\* the failure list, and get_validation_report changes none of them.
C15_FreshAndAccumulating ==
  /\ lastOp \in {"init", "reset_stats"} => Fresh
  /\ lastOp = "validate" => valid_count + invalid_count >= 1
  /\ (Fresh /\ ~WasFresh) => lastOp \in {"reset_stats", "init"}
  /\ lastOp \in {"validate", "validate_batch", "get_validation_report"} =>
       /\ valid_count >= before.valid_count
       /\ invalid_count >= before.invalid_count
       /\ Len(validation_errors) >= before.nerrors
  /\ lastOp = "get_validation_report" =>
       /\ valid_count = before.valid_count
       /\ invalid_count = before.invalid_count
       /\ Len(validation_errors) = before.nerrors

\* a report taken while the validator holds valid and invalid counts and
\* failures
C15_Witness ==
  /\ lastOp = "get_validation_report"
  /\ valid_count >= 1
  /\ invalid_count >= 2
  /\ Len(validation_errors) >= 1
  /\ before.lastOp = "validate_batch"

\* --- C16 ----------------------------------------------------------------
\* C16: under the Product schema a record accepted with a present currency
\* carries a currency of exactly 3 characters in upper case ("usd" comes
\* back as "USD"), and a record whose present currency does not have 3
\* characters is rejected.
C16_CurrencyThreeUpper ==
  (lastOp = "validate" /\ model_class = "ProductModel"
     /\ ~IsNone(arg[1].currency)) =>
    /\ ~IsNone(ret) =>
         /\ ~IsNone(ret[1].currency)
         /\ Len(ret[1].currency[1]) = 3
         /\ upper(ret[1].currency[1]) = ret[1].currency[1]
         /\ arg[1].currency = Some(<<"u", "s", "d">>) =>
              ret[1].currency = Some(<<"U", "S", "D">>)
    /\ Len(arg[1].currency[1]) # 3 => IsNone(ret)

\* --- C17 ----------------------------------------------------------------
\* C17: in fetch_html a sleep comes right after an attempt and only while
\* fewer than retries attempts were made; a call that has returned ends with
\* an attempt and slept once less than it attempted (N - 1 times when it
\* used all N attempts); a sleep is followed by an attempt, or the call is
\* still in its loop.
C17_SleepOnlyBeforeRetry ==
  (fn = "fetch_html" /\ retries >= 1) =>
    /\ \A i \in 1 .. Len(trace) :
         IsSleep(trace[i]) =>
           /\ i > 1
           /\ IsGet(trace[i - 1])
           /\ AttemptIndex(i) <= retries - 1
           /\ IF i < Len(trace) THEN IsGet(trace[i + 1]) ELSE fpc = "loop"
    /\ (fpc = "done" /\ trace # <<>>) =>
         /\ IsGet(trace[Len(trace)])
         /\ Len(Delays) = Attempts - 1
    /\ (fpc = "done" /\ Attempts = retries) => Len(Delays) = retries - 1

\* three timeouts with retries = 3: two sleeps, none after the last attempt
C17_Witness ==
  /\ fn = "fetch_html"
  /\ retries = 3
  /\ fpc = "done"
  /\ Attempts = 3
  /\ IsTimeout(trace[Len(trace)].out)
  /\ Len(Delays) = 2

\* --- C18 ----------------------------------------------------------------
IsSummary(l) == l.level = "INFO" /\ l.msg = "Validated"

\* C18: validate_batch writes one summary record, as its last log record;
\* its total is the length of the batch and its valid and invalid counts add
\* up to that total.
C18_SummaryConsistent ==
  lastOp = "validate_batch" =>
    /\ Len(SelectSeq(log, IsSummary)) = 1
    /\ IsSummary(log[Len(log)])
    /\ log[Len(log)].total = Len(arg)
    /\ log[Len(log)].valid + log[Len(log)].invalid = log[Len(log)].total

\* --- C19 ----------------------------------------------------------------
\* C19 as stated: fetch_html returns content only if an attempt of the call
\* got a 2xx response.
C19_ContentOnly2xx ==
  (fn = "fetch_html" /\ fpc = "done" /\ ~IsNone(result)) =>
    \E i \in 1 .. Len(trace) : IsGet(trace[i]) /\ Is2xx(trace[i].out)

\* C19 amended: fetch_html returns content only if the last attempt of the
\* call got a response whose status is outside 400-599, and the content is
\* that response's body; a 4xx or 5xx response never yields content.
C19_ContentOnlyBelow400 ==
  (fn = "fetch_html" /\ fpc = "done" /\ ~IsNone(result)) =>
    /\ trace # <<>>
    /\ IsGet(trace[Len(trace)])
    /\ trace[Len(trace)].out.cls = "Response"
    /\ ~Is4xx(trace[Len(trace)].out)
    /\ ~Is5xx(trace[Len(trace)].out)
    /\ result = Some(trace[Len(trace)].out.text)

\* a 304 answer whose body is returned as content
C19_Witness ==
  /\ fn = "fetch_html"
  /\ fpc = "done"
  /\ ~IsNone(result)
  /\ trace[Len(trace)].out.status = 304

\* --- C20 ----------------------------------------------------------------
\* C20: with retries <= 0 either function returns None without a request or
\* a sleep; a call never makes more than max(retries, 0) attempts.
C20_NoAttemptWithoutRetries ==
  /\ Attempts <= (IF retries > 0 THEN retries ELSE 0)
  /\ retries <= 0 =>
       /\ trace = <<>>
       /\ IsNone(result)
       /\ fpc \in {"idle", "done"}

\* fetch_html_with_session(retries = -1) has returned
C20_Witness ==
  /\ fn = "fetch_html_with_session"
  /\ retries = -1
  /\ fpc = "done"
  /\ trace = <<>>

====
